---- MODULE Spec2Model ----
(***************************************************************************)
(* Article store of src/main.go: the mutex-guarded handlers (first half of *)
(* the file).  Strings the code operates on character by character are     *)
(* sequences of one-character strings; a request path is the sequence of   *)
(* segments strings.Split(url, "/") yields.                                *)
(***************************************************************************)
EXTENDS Integers, Sequences, FiniteSets, TLC

\* ---------------------------------------------------------------- bounds
\* Number of records the store may hold (seed record included).
MaxStore == 3
\* Number of calendar days the clock may take.
MaxDay == 2

\* Concurrent callers (one goroutine per inbound request).
Procs == {1, 2}

\* --------------------------------------------------------------- strings
health == <<"h", "e", "a", "l", "t", "h">>
fitness == <<"f", "i", "t">>
science == <<"s", "c", "i">>
\* A submitted tag differing from health only in letter case.
HealthCap == <<"H", "e", "a", "l", "t", "h">>
\* A tag no draft carries.
nonexistent == <<"n", "o", "n", "e">>

SeedTitle == "latest science shows that potato chips are better for you than sugar"
SeedBody == "some text, potentially containing simple markup about how potato chips are great"

Digits == <<"0", "1", "2", "3", "4", "5", "6", "7", "8", "9">>

IsDigit(c) == \E i \in 1..10 : Digits[i] = c

DigitVal(c) == (CHOOSE i \in 1..10 : Digits[i] = c) - 1

\* The decimal digits of n, zero-padded to width w (the layout "2006", "01", "02").
RECURSIVE Pad(_, _)
Pad(n, w) == IF w = 0 THEN <<>> ELSE Pad(n \div 10, w - 1) \o <<Digits[(n % 10) + 1]>>

\* The calendar day the clock shows on its n-th day (n = 1 is the day of start-up).
Today(n) == [year |-> 2022, month |-> 4, day |-> 6 + n]

\* time.Now().Format("2006-01-02")
Format(t) == Pad(t.year, 4) \o <<"-">> \o Pad(t.month, 2) \o <<"-">> \o Pad(t.day, 2)

\* strings.ReplaceAll(s, old, new) for a one-character old.
RECURSIVE ReplaceAll(_, _, _)
ReplaceAll(s, old, new) ==
    IF s = <<>> THEN <<>>
    ELSE (IF Head(s) = old THEN new ELSE <<Head(s)>>) \o ReplaceAll(Tail(s), old, new)

\* strconv.ParseUint(s, 10, 32): digits only, at least one, value below 2^32.
RECURSIVE DecValue(_)
DecValue(s) == IF s = <<>> THEN 0 ELSE DecValue(SubSeq(s, 1, Len(s) - 1)) * 10 + DigitVal(s[Len(s)])

\* s without its leading zeros.
RECURSIVE TrimZeros(_)
TrimZeros(s) == IF s # <<>> /\ Head(s) = "0" THEN TrimZeros(Tail(s)) ELSE s

\* a > b for digit strings of equal length.
RECURSIVE DigitsGreater(_, _)
DigitsGreater(a, b) ==
    IF a = <<>> THEN FALSE
    ELSE IF DigitVal(Head(a)) # DigitVal(Head(b)) THEN DigitVal(Head(a)) > DigitVal(Head(b))
         ELSE DigitsGreater(Tail(a), Tail(b))

\* 2^32 - 1 in decimal, the largest value of bit size 32.
MaxUint32 == <<"4", "2", "9", "4", "9", "6", "7", "2", "9", "5">>

\* The digit string s exceeds 2^32 - 1 (decided on the digits: the value does
\* not fit the checker's integers).
OutOfRange(s) ==
    LET t == TrimZeros(s)
    IN  Len(t) > Len(MaxUint32) \/ (Len(t) = Len(MaxUint32) /\ DigitsGreater(t, MaxUint32))

ParseUint(s) ==
    IF s = <<>> \/ \E i \in 1..Len(s) : ~IsDigit(s[i])
    THEN [err |-> TRUE, number |-> 0]
    ELSE IF OutOfRange(s)
         THEN [err |-> TRUE, number |-> 0]
         ELSE [err |-> FALSE, number |-> DecValue(s)]

\* All orders in which a Go map with key set S may be ranged over.
MapOrders(S) == {s \in [1..Cardinality(S) -> S] : \A i, j \in 1..Cardinality(S) : s[i] = s[j] => i = j}

\* ------------------------------------------------------------ data model
\* DtoPostRequestArticle values a client may post: one tag of the seed record;
\* a tag in another letter case, listed twice, with a second tag.
Drafts ==
    { [Title |-> "Sugar", Body |-> "b1", Tags |-> <<health>>],
      [Title |-> "Run", Body |-> "b2", Tags |-> <<HealthCap, fitness, HealthCap>>] }

NoDraft == [Title |-> "", Body |-> "", Tags |-> <<>>]

\* A request body: whether ioutil.ReadAll fails, whether json.Unmarshal
\* accepts the bytes, and the draft they decode to.
PostBodies ==
    { [readErr |-> FALSE, valid |-> TRUE, dto |-> d] : d \in Drafts }
    \cup { [readErr |-> FALSE, valid |-> FALSE, dto |-> NoDraft],
           [readErr |-> TRUE, valid |-> FALSE, dto |-> NoDraft] }

NoBody == [readErr |-> FALSE, valid |-> FALSE, dto |-> NoDraft]

\* make(map[string]int)
EmptyMap == [k \in {} |-> 0]

\* m[k] = v on a Go map
MapPut(m, k, v) == [x \in (DOMAIN m) \cup {k} |-> IF x = k THEN v ELSE m[x]]

\* Mutant: the loop stops one tag early.
RECURSIVE M_TagsLoopStopsEarly(_, _, _)
M_TagsLoopStopsEarly(tags, i, m) ==
    IF i < Len(tags) - 1 THEN M_TagsLoopStopsEarly(tags, i + 1, MapPut(m, tags[i + 1], i)) ELSE m

\* The loop of ConvertReqDtoToDomain: domain.Tags[dtoReq.Tags[i]] = i
RECURSIVE TagsLoop(_, _, _)
TagsLoop(tags, i, m) ==
    IF i < Len(tags) THEN TagsLoop(tags, i + 1, MapPut(m, tags[i + 1], i)) ELSE m

\* Mutant: the identifier is counted from one.
M_ConvertIdFromOne(st, dtoReq, t) ==
    [Id |-> Len(st) + 1,
     Title |-> dtoReq.Title,
     Date |-> Format(t),
     Body |-> dtoReq.Body,
     Tags |-> TagsLoop(dtoReq.Tags, 0, EmptyMap)]

ConvertReqDtoToDomain(st, dtoReq, t) ==
    [Id |-> Len(st),
     Title |-> dtoReq.Title,
     Date |-> Format(t),
     Body |-> dtoReq.Body,
     Tags |-> TagsLoop(dtoReq.Tags, 0, EmptyMap)]

\* The default store of newArticleHandlers, built on day t.
newArticleHandlers(t) ==
    << [Id |-> 0,
        Title |-> SeedTitle,
        Date |-> Format(t),
        Body |-> SeedBody,
        Tags |-> (health :> 0) @@ (fitness :> 1) @@ (science :> 2)] >>

\* ------------------------------------------------------------- responses
NoResp == [status |-> 0, kind |-> "none", body |-> <<>>]

StatusOK == 200
StatusBadRequest == 400
StatusMethodNotAllowed == 405
StatusInternalServerError == 500

\* resp.WriteHeader(status); resp.Write([]byte(msg))
Text(status, msg) == [status |-> status, kind |-> "text", body |-> msg]

\* A handler that returns without writing: net/http answers 200 with no body.
Unwritten == [status |-> StatusOK, kind |-> "empty", body |-> <<>>]

\* The goroutine panicked (index out of range); net/http recovers it and
\* drops the connection.
Panicked == [status |-> 0, kind |-> "panic", body |-> <<>>]

\* ss[i], Go's zero-based index into the split path.
Seg(ss, i) == ss[i + 1]

\* --------------------------------------------------------------- getTags
\* The scan of getTags over h.store[i..]: acc holds ids, tagMap and count.
RECURSIVE getTagsLoop(_, _, _, _, _)
getTagsLoop(st, i, tagQ, dateQ, acc) ==
    IF i < Len(st)
    THEN LET rec == st[i + 1]
             res == ReplaceAll(rec.Date, "-", <<>>)
             pres == tagQ \in DOMAIN rec.Tags
         IN  IF res = dateQ /\ pres
             THEN getTagsLoop(st, i + 1, tagQ, dateQ,
                      [ids |-> Append(acc.ids, rec.Id),
                       tagMap |-> [k \in (DOMAIN acc.tagMap) \cup (DOMAIN rec.Tags) |-> 0],
                       count |-> acc.count + 1])
             ELSE getTagsLoop(st, i + 1, tagQ, dateQ, acc)
    ELSE acc

\* Mutant: the scan starts at the second record.
M_ScanFromOne(st, tagQ, dateQ) ==
    getTagsLoop(st, 1, tagQ, dateQ, [ids |-> <<>>, tagMap |-> EmptyMap, count |-> 0])

getTagsScan(st, tagQ, dateQ) ==
    getTagsLoop(st, 0, tagQ, dateQ, [ids |-> <<>>, tagMap |-> EmptyMap, count |-> 0])

\* The DtoResponseTagArticles built from a scan; order is the order in which
\* the range over tagMap yields its keys.
\* Mutant: Count is taken from the related tags.
M_CountsRelatedTags(tagQ, acc, order) ==
    [Tag |-> tagQ, Count |-> Len(order), Articles |-> acc.ids, Related_Tags |-> order]

\* Mutant: the queried tag is left out of the related tags.
M_RelatedWithoutQueried(tagQ, acc, order) ==
    [Tag |-> tagQ, Count |-> acc.count, Articles |-> acc.ids,
     Related_Tags |-> SelectSeq(order, LAMBDA k : k # tagQ)]

tagStore(tagQ, acc, order) ==
    [Tag |-> tagQ, Count |-> acc.count, Articles |-> acc.ids, Related_Tags |-> order]

\* Mutant: a query that matches nothing is answered as a bad request.
M_NoMatchIsBadRequest(st, ss) ==
    IF Len(ss) # 4 \/ getTagsScan(st, Seg(ss, 2), Seg(ss, 3)).count = 0
    THEN {Text(StatusBadRequest, "Bad request tag url.")}
    ELSE LET dateQ == Seg(ss, 3)
             tagQ == Seg(ss, 2)
             acc == getTagsScan(st, tagQ, dateQ)
         IN  { [status |-> StatusOK, kind |-> "tags", body |-> tagStore(tagQ, acc, order)] :
                   order \in MapOrders(DOMAIN acc.tagMap) }

\* The responses getTags may write for path ss against store st.
getTagsResponses(st, ss) ==
    IF Len(ss) # 4
    THEN {Text(StatusBadRequest, "Bad request tag url.")}
    ELSE LET dateQ == Seg(ss, 3)
             tagQ == Seg(ss, 2)
             acc == getTagsScan(st, tagQ, dateQ)
         IN  { [status |-> StatusOK, kind |-> "tags", body |-> tagStore(tagQ, acc, order)] :
                   order \in MapOrders(DOMAIN acc.tagMap) }

\* ---------------------------------------------------- process_id_request
\* h.store[i]: a record, or an index-out-of-range panic.
StoreAt(st, i) ==
    IF 0 <= i /\ i < Len(st)
    THEN [status |-> StatusOK, kind |-> "record", body |-> st[i + 1]]
    ELSE Panicked

\* Mutant: the bound check admits the id equal to the length.
M_IdBoundOffByOne(st, ss) ==
    LET parsed == ParseUint(Seg(ss, 2))
        finalIntNum == parsed.number
    IN  IF parsed.err
        THEN Text(StatusBadRequest, "Bad request url.")
        ELSE IF finalIntNum > Len(st)
             THEN Text(StatusBadRequest, "Bad request url - index not valid.")
             ELSE StoreAt(st, finalIntNum)

processIdResponse(st, ss) ==
    LET parsed == ParseUint(Seg(ss, 2))
        finalIntNum == parsed.number
    IN  IF parsed.err
        THEN Text(StatusBadRequest, "Bad request url.")
        ELSE IF finalIntNum > Len(st) - 1
             THEN Text(StatusBadRequest, "Bad request url - index not valid.")
             ELSE StoreAt(st, finalIntNum)

\* ------------------------------------------------------------------- get
\* One range order per record of st[1..n].
RECURSIVE TagOrdersUpTo(_, _)
TagOrdersUpTo(st, n) ==
    IF n = 0 THEN {<<>>}
    ELSE { Append(o, x) : o \in TagOrdersUpTo(st, n - 1), x \in MapOrders(DOMAIN st[n].Tags) }

TagOrders(st) == TagOrdersUpTo(st, Len(st))

\* make([]string, n): n empty strings.
MakeStrings(n) == [j \in 1..n |-> <<>>]

CreateRespStoreFromDomainStore(st, orders) ==
    [i \in 1..Len(st) |->
        [Id |-> st[i].Id,
         Title |-> st[i].Title,
         Date |-> st[i].Date,
         Body |-> st[i].Body,
         Tags |-> MakeStrings(Cardinality(DOMAIN st[i].Tags)) \o orders[i]]]

\* -------------------------------------------------------------- requests
tagsSeg == <<"t", "a", "g", "s">>
articlesSeg == <<"a", "r", "t", "i", "c", "l", "e", "s">>

QueryTags == {health, HealthCap, nonexistent}

\* Dates a client asks for: each day without separators, and one with them.
QueryDates ==
    { ReplaceAll(Format(Today(n)), "-", <<>>) : n \in 1..MaxDay } \cup { Format(Today(1)) }

\* Paths under /tags/, as split on "/": well formed, too short, too long.
TagPaths ==
    { <<<<>>, tagsSeg, t, d>> : t \in QueryTags, d \in QueryDates }
    \cup { <<<<>>, tagsSeg, health>>,
           <<<<>>, tagsSeg, health, ReplaceAll(Format(Today(1)), "-", <<>>), <<>>>> }

\* Identifiers a client asks for: 0..MaxStore, a negative one, a word, one
\* beyond 32 bits.
IdSegs ==
    { Pad(i, 1) : i \in 0..MaxStore }
    \cup { <<"-", "1">>, <<"x">>, <<"4", "2", "9", "4", "9", "6", "7", "2", "9", "6">> }

ArticlePaths ==
    { <<<<>>, articlesSeg>> }
    \cup { <<<<>>, articlesSeg, id>> : id \in IdSegs }
    \cup { <<<<>>, articlesSeg, <<"0">>, <<"x">>>> }

TagRequests ==
    { [method |-> "GET", ss |-> ss, body |-> NoBody] : ss \in TagPaths }
    \cup { [method |-> mth, ss |-> <<<<>>, tagsSeg, health, <<>>>>, body |-> NoBody] :
               mth \in {"POST", "PUT"} }

ArticleRequests ==
    { [method |-> "GET", ss |-> ss, body |-> NoBody] : ss \in ArticlePaths }
    \cup { [method |-> "POST", ss |-> <<<<>>, articlesSeg>>, body |-> b] : b \in PostBodies }
    \cup { [method |-> "PUT", ss |-> <<<<>>, articlesSeg>>, body |-> NoBody] }

NoReq == [method |-> "", ss |-> <<>>, body |-> NoBody]

\* ----------------------------------------------------------------- state
VARIABLES
    store,      \* h.store
    m,          \* h.m: the goroutine holding the mutex, 0 when unlocked
    now,        \* the day time.Now() falls on
    pc,         \* where each goroutine stands
    req,        \* the request each goroutine serves
    resp,       \* the response it has written
    domain,     \* post's local variable domain
    commitLog,  \* history: the drafts converted so far, with the day of conversion
    issued,     \* history: per title, the well-formed drafts post has decoded so far
    base        \* the h.store each goroutine's append has read and not yet written back

vars == <<store, m, now, pc, req, resp, domain, commitLog, issued, base>>

NoDomain == [Id |-> 0, Title |-> "", Date |-> <<>>, Body |-> "", Tags |-> EmptyMap]

Titles == { d.Title : d \in Drafts }

Init ==
    /\ now = 1
    /\ store = newArticleHandlers(Today(1))
    /\ m = 0
    /\ pc = [p \in Procs |-> "idle"]
    /\ req = [p \in Procs |-> NoReq]
    /\ resp = [p \in Procs |-> NoResp]
    /\ domain = [p \in Procs |-> NoDomain]
    /\ commitLog = <<>>
    /\ issued = [t \in Titles |-> 0]
    /\ base = [p \in Procs |-> <<>>]

\* Posts received and not yet returned.
PostsInFlight ==
    { q \in Procs : pc[q] \in {"post", "post_convert", "post_append", "post_store"} }

\* The clock passes midnight.
Tick ==
    /\ now < MaxDay
    /\ now' = now + 1
    /\ UNCHANGED <<store, m, pc, req, resp, domain, commitLog, issued, base>>

\* Mutant: the lock is taken whoever holds it.
M_LockWithoutExclusion(p) == m' = p

\* h.m.Lock()
Lock(p) == m = 0 /\ m' = p

\* The requests a handler blocked at label l may be serving.  A router reads
\* only the method and, in get, the number of path segments; the rest of the
\* request is drawn where the handler first reads it, after its lock.
RequestsAt(l) ==
    CASE l = "getTags" -> { r \in TagRequests : r.method = "GET" }
      [] l = "process_id_request" -> { r \in ArticleRequests : r.method = "GET" /\ Len(r.ss) = 3 }
      [] l = "get_list" -> { r \in ArticleRequests : r.method = "GET" /\ Len(r.ss) < 3 }
      [] l = "post" -> { r \in ArticleRequests : r.method = "POST" }
      [] OTHER -> {}

\* A request reaches the router articles, which calls get or post; get checks
\* the path and calls process_id_request or goes on to its own lock.
articles(p) ==
    /\ pc[p] = "idle"
    /\ \E r \in ArticleRequests :
         /\ r.method = "POST" => Len(store) + Cardinality(PostsInFlight) < MaxStore
         /\ IF r.method = "GET"
            THEN IF Len(r.ss) > 3
                 THEN /\ resp' = [resp EXCEPT ![p] = Text(StatusBadRequest, "Bad request url.")]
                      /\ req' = [req EXCEPT ![p] = r]
                      /\ pc' = [pc EXCEPT ![p] = "ret"]
                 ELSE IF Len(r.ss) = 3
                      THEN pc' = [pc EXCEPT ![p] = "process_id_request"] /\ UNCHANGED <<req, resp>>
                      ELSE pc' = [pc EXCEPT ![p] = "get_list"] /\ UNCHANGED <<req, resp>>
            ELSE IF r.method = "POST"
                 THEN pc' = [pc EXCEPT ![p] = "post"] /\ UNCHANGED <<req, resp>>
                 ELSE /\ pc' = [pc EXCEPT ![p] = "ret"]
                      /\ req' = [req EXCEPT ![p] = r]
                      /\ resp' = [resp EXCEPT ![p] =
                             [status |-> StatusMethodNotAllowed, kind |-> "empty", body |-> <<>>]]
    /\ UNCHANGED <<store, m, now, domain, commitLog, issued, base>>

\* A request reaches the router tags.
tags(p) ==
    /\ pc[p] = "idle"
    /\ \E r \in TagRequests :
         IF r.method = "GET"
         THEN pc' = [pc EXCEPT ![p] = "getTags"] /\ UNCHANGED <<req, resp>>
         ELSE /\ pc' = [pc EXCEPT ![p] = "ret"]
              /\ req' = [req EXCEPT ![p] = r]
              /\ resp' = [resp EXCEPT ![p] =
                     IF r.method = "POST" THEN Unwritten
                     ELSE [status |-> StatusMethodNotAllowed, kind |-> "empty", body |-> <<>>]]
    /\ UNCHANGED <<store, m, now, domain, commitLog, issued, base>>

\* getTags: the lock, the scan and the response; the deferred unlock is Return.
getTags(p) ==
    /\ pc[p] = "getTags"
    /\ Lock(p)
    /\ \E r \in RequestsAt("getTags") :
         /\ req' = [req EXCEPT ![p] = r]
         /\ \E w \in getTagsResponses(store, r.ss) : resp' = [resp EXCEPT ![p] = w]
    /\ pc' = [pc EXCEPT ![p] = "ret"]
    /\ UNCHANGED <<store, now, domain, commitLog, issued, base>>

\* get, from its lock on: the listing of the whole store.
get(p) ==
    /\ pc[p] = "get_list"
    /\ Lock(p)
    /\ \E r \in RequestsAt("get_list") : req' = [req EXCEPT ![p] = r]
    /\ \E orders \in TagOrders(store) :
         resp' = [resp EXCEPT ![p] =
             [status |-> StatusOK, kind |-> "list",
              body |-> CreateRespStoreFromDomainStore(store, orders)]]
    /\ pc' = [pc EXCEPT ![p] = "ret"]
    /\ UNCHANGED <<store, now, domain, commitLog, issued, base>>

process_id_request(p) ==
    /\ pc[p] = "process_id_request"
    /\ Lock(p)
    /\ \E r \in RequestsAt("process_id_request") :
         /\ req' = [req EXCEPT ![p] = r]
         /\ resp' = [resp EXCEPT ![p] = processIdResponse(store, r.ss)]
    /\ pc' = [pc EXCEPT ![p] = "ret"]
    /\ UNCHANGED <<store, now, domain, commitLog, issued, base>>

\* Mutant: after the error response for a body that does not decode, post
\* goes on to convert and append the empty draft.
M_PostFallsThrough(p) ==
    /\ pc[p] = "post"
    /\ Lock(p)
    /\ \E r \in RequestsAt("post") :
         /\ req' = [req EXCEPT ![p] = r]
         /\ IF r.body.readErr
            THEN /\ resp' = [resp EXCEPT ![p] = Text(StatusInternalServerError, "read error")]
                 /\ pc' = [pc EXCEPT ![p] = "ret"]
                 /\ UNCHANGED issued
            ELSE IF ~r.body.valid
                 THEN /\ resp' = [resp EXCEPT ![p] = Text(StatusBadRequest, "unmarshal error")]
                      /\ pc' = [pc EXCEPT ![p] = "post_convert"]
                      /\ UNCHANGED issued
                 ELSE /\ pc' = [pc EXCEPT ![p] = "post_convert"]
                      /\ issued' = [issued EXCEPT ![r.body.dto.Title] = @ + 1]
                      /\ UNCHANGED resp
    /\ UNCHANGED <<store, now, domain, commitLog, base>>

\* Mutant: post runs without taking the lock.
M_PostWithoutLock(p) ==
    /\ pc[p] = "post"
    /\ \E r \in RequestsAt("post") :
         /\ req' = [req EXCEPT ![p] = r]
         /\ IF r.body.readErr
            THEN /\ resp' = [resp EXCEPT ![p] = Text(StatusInternalServerError, "read error")]
                 /\ pc' = [pc EXCEPT ![p] = "ret"]
                 /\ UNCHANGED issued
            ELSE IF ~r.body.valid
                 THEN /\ resp' = [resp EXCEPT ![p] = Text(StatusBadRequest, "unmarshal error")]
                      /\ pc' = [pc EXCEPT ![p] = "ret"]
                      /\ UNCHANGED issued
                 ELSE /\ pc' = [pc EXCEPT ![p] = "post_convert"]
                      /\ issued' = [issued EXCEPT ![r.body.dto.Title] = @ + 1]
                      /\ UNCHANGED resp
    /\ UNCHANGED <<store, m, now, domain, commitLog, base>>

\* post, up to the decoded draft: the lock, ioutil.ReadAll and json.Unmarshal.
post(p) ==
    /\ pc[p] = "post"
    /\ Lock(p)
    /\ \E r \in RequestsAt("post") :
         /\ req' = [req EXCEPT ![p] = r]
         /\ IF r.body.readErr
            THEN /\ resp' = [resp EXCEPT ![p] = Text(StatusInternalServerError, "read error")]
                 /\ pc' = [pc EXCEPT ![p] = "ret"]
                 /\ UNCHANGED issued
            ELSE IF ~r.body.valid
                 THEN /\ resp' = [resp EXCEPT ![p] = Text(StatusBadRequest, "unmarshal error")]
                      /\ pc' = [pc EXCEPT ![p] = "ret"]
                      /\ UNCHANGED issued
                 ELSE /\ pc' = [pc EXCEPT ![p] = "post_convert"]
                      /\ issued' = [issued EXCEPT ![r.body.dto.Title] = @ + 1]
                      /\ UNCHANGED resp
    /\ UNCHANGED <<store, now, domain, commitLog, base>>

\* domain := h.ConvertReqDtoToDomain(dtoReq)
postConvert(p) ==
    /\ pc[p] = "post_convert"
    /\ domain' = [domain EXCEPT ![p] = ConvertReqDtoToDomain(store, req[p].body.dto, Today(now))]
    /\ commitLog' = Append(commitLog, [dto |-> req[p].body.dto, day |-> now])
    /\ pc' = [pc EXCEPT ![p] = "post_append"]
    /\ UNCHANGED <<store, m, now, req, resp, issued, base>>

\* Mutant: the new record is put in front of the store.
M_PostPrepends(p) ==
    /\ pc[p] = "post_append"
    /\ store' = <<domain[p]>> \o store
    /\ resp' = [resp EXCEPT ![p] = Unwritten]
    /\ pc' = [pc EXCEPT ![p] = "ret"]
    /\ UNCHANGED <<m, now, req, domain, commitLog, issued, base>>

\* h.store = append(h.store, domain)
postAppend(p) ==
    /\ pc[p] = "post_append"
    /\ store' = Append(store, domain[p])
    /\ resp' = [resp EXCEPT ![p] = Unwritten]
    /\ pc' = [pc EXCEPT ![p] = "ret"]
    /\ UNCHANGED <<m, now, req, domain, commitLog, issued, base>>

\* Mutant: a handler that answered with an error returns without unlocking.
M_ReturnKeepsLockOnError(p) ==
    /\ pc[p] = "ret"
    /\ m' = IF m = p /\ resp[p].status < StatusBadRequest THEN 0 ELSE m
    /\ pc' = [pc EXCEPT ![p] = "idle"]
    /\ req' = [req EXCEPT ![p] = NoReq]
    /\ resp' = [resp EXCEPT ![p] = NoResp]
    /\ domain' = [domain EXCEPT ![p] = NoDomain]
    /\ UNCHANGED <<store, now, commitLog, issued, base>>

\* The handler returns: the deferred h.m.Unlock() runs if the lock was taken.
Return(p) ==
    /\ pc[p] = "ret"
    /\ m' = IF m = p THEN 0 ELSE m
    /\ pc' = [pc EXCEPT ![p] = "idle"]
    /\ req' = [req EXCEPT ![p] = NoReq]
    /\ resp' = [resp EXCEPT ![p] = NoResp]
    /\ domain' = [domain EXCEPT ![p] = NoDomain]
    /\ UNCHANGED <<store, now, commitLog, issued, base>>

Next ==
    \/ Tick
    \/ \E p \in Procs :
         \/ articles(p)
         \/ tags(p)
         \/ getTags(p)
         \/ get(p)
         \/ process_id_request(p)
         \/ post(p)
         \/ postConvert(p)
         \/ postAppend(p)
         \/ Return(p)

Spec == Init /\ [][Next]_vars

\* Scheduling: a goroutine that can take a step takes it in the end, and a
\* goroutine blocked in h.m.Lock() gets the mutex in the end if it is released
\* again and again (sync.Mutex hands the lock to a waiter that starves).
\* Nothing obliges a client to send a request or the clock to tick.
\* A goroutine is at one label at a time, so one condition per kind of step:
\* the steps that begin with h.m.Lock() ...
TakeLock(p) == getTags(p) \/ get(p) \/ process_id_request(p) \/ post(p)

\* ... and the steps of a goroutine that needs no lock to go on.
Proceed(p) == postConvert(p) \/ postAppend(p) \/ Return(p)

Fairness == \A p \in Procs : SF_vars(TakeLock(p)) /\ WF_vars(Proceed(p))

FairSpec == Spec /\ Fairness

\* ============================================== the variant without mutex
\* The second program of main.go: the same routes over h.store
\* []DtoRespArticle, a record's tags kept as the posted list, and no lock
\* around any handler.

\* The default store of newArticleHandlers, built on day t.
newArticleHandlers2(t) ==
    << [Id |-> 0,
        Title |-> SeedTitle,
        Date |-> Format(t),
        Body |-> SeedBody,
        Tags |-> <<health, fitness, science>>] >>

ConvertDomainToDto(st, dom, t) ==
    [Id |-> Len(st),
     Title |-> dom.Title,
     Date |-> Format(t),
     Body |-> dom.Body,
     Tags |-> dom.Tags]

\* The loop over k: tagMap[h.store[i].Tags[k]] = k
RECURSIVE getTagsLoopK(_, _, _)
getTagsLoopK(Tags, k, tagMap) ==
    IF k < Len(Tags) THEN getTagsLoopK(Tags, k + 1, MapPut(tagMap, Tags[k + 1], k)) ELSE tagMap

\* The loop over j, the tags of h.store[i]: every tag equal to tagQ appends i
\* to ids, fills tagMap and counts.
RECURSIVE getTagsLoopJ(_, _, _, _, _)
getTagsLoopJ(st, i, j, tagQ, acc) ==
    IF j < Len(st[i + 1].Tags)
    THEN IF st[i + 1].Tags[j + 1] = tagQ
         THEN getTagsLoopJ(st, i, j + 1, tagQ,
                  [ids |-> Append(acc.ids, i),
                   tagMap |-> getTagsLoopK(st[i + 1].Tags, 0, acc.tagMap),
                   count |-> acc.count + 1])
         ELSE getTagsLoopJ(st, i, j + 1, tagQ, acc)
    ELSE acc

\* The loop over i, the records of h.store.
RECURSIVE getTagsLoopI(_, _, _, _, _)
getTagsLoopI(st, i, tagQ, dateQ, acc) ==
    IF i < Len(st)
    THEN LET res == ReplaceAll(st[i + 1].Date, "-", <<>>)
         IN  IF res = dateQ
             THEN getTagsLoopI(st, i + 1, tagQ, dateQ, getTagsLoopJ(st, i, 0, tagQ, acc))
             ELSE getTagsLoopI(st, i + 1, tagQ, dateQ, acc)
    ELSE acc

getTagsScan2(st, tagQ, dateQ) ==
    getTagsLoopI(st, 0, tagQ, dateQ, [ids |-> <<>>, tagMap |-> EmptyMap, count |-> 0])

\* The responses getTags may write for path ss against store st: ss[3] and
\* ss[2] are read first, then the number of segments is checked.
getTagsResponses2(st, ss) ==
    IF Len(ss) < 4
    THEN {Panicked}
    ELSE LET dateQ == Seg(ss, 3)
             tagQ == Seg(ss, 2)
         IN  IF Len(ss) # 4
             THEN {Text(StatusBadRequest, "Bad request tag url.")}
             ELSE LET acc == getTagsScan2(st, tagQ, dateQ)
                  IN  { [status |-> StatusOK, kind |-> "tags", body |-> tagStore(tagQ, acc, order)] :
                            order \in MapOrders(DOMAIN acc.tagMap) }

InitNoMutex ==
    /\ now = 1
    /\ store = newArticleHandlers2(Today(1))
    /\ m = 0
    /\ pc = [p \in Procs |-> "idle"]
    /\ req = [p \in Procs |-> NoReq]
    /\ resp = [p \in Procs |-> NoResp]
    /\ domain = [p \in Procs |-> NoDomain]
    /\ commitLog = <<>>
    /\ issued = [t \in Titles |-> 0]
    /\ base = [p \in Procs |-> <<>>]

\* The routers are the ones of the first program, line for line.
articles2(p) == articles(p)

tags2(p) == tags(p)

getTags2(p) ==
    /\ pc[p] = "getTags"
    /\ \E r \in RequestsAt("getTags") :
         /\ req' = [req EXCEPT ![p] = r]
         /\ \E w \in getTagsResponses2(store, r.ss) : resp' = [resp EXCEPT ![p] = w]
    /\ pc' = [pc EXCEPT ![p] = "ret"]
    /\ UNCHANGED <<store, m, now, domain, commitLog, issued, base>>

\* get, after its checks of the path: json.Marshal(h.store).
get2(p) ==
    /\ pc[p] = "get_list"
    /\ \E r \in RequestsAt("get_list") : req' = [req EXCEPT ![p] = r]
    /\ resp' = [resp EXCEPT ![p] = [status |-> StatusOK, kind |-> "list", body |-> store]]
    /\ pc' = [pc EXCEPT ![p] = "ret"]
    /\ UNCHANGED <<store, m, now, domain, commitLog, issued, base>>

\* The same parse, bound check and index as in the first program.
process_id_request2(p) ==
    /\ pc[p] = "process_id_request"
    /\ \E r \in RequestsAt("process_id_request") :
         /\ req' = [req EXCEPT ![p] = r]
         /\ resp' = [resp EXCEPT ![p] = processIdResponse(store, r.ss)]
    /\ pc' = [pc EXCEPT ![p] = "ret"]
    /\ UNCHANGED <<store, m, now, domain, commitLog, issued, base>>

\* post, up to the decoded domain: ioutil.ReadAll and json.Unmarshal.
post2(p) ==
    /\ pc[p] = "post"
    /\ \E r \in RequestsAt("post") :
         /\ req' = [req EXCEPT ![p] = r]
         /\ IF r.body.readErr
            THEN /\ resp' = [resp EXCEPT ![p] = Text(StatusInternalServerError, "read error")]
                 /\ pc' = [pc EXCEPT ![p] = "ret"]
                 /\ UNCHANGED issued
            ELSE IF ~r.body.valid
                 THEN /\ resp' = [resp EXCEPT ![p] = Text(StatusBadRequest, "unmarshal error")]
                      /\ pc' = [pc EXCEPT ![p] = "ret"]
                      /\ UNCHANGED issued
                 ELSE /\ pc' = [pc EXCEPT ![p] = "post_convert"]
                      /\ issued' = [issued EXCEPT ![r.body.dto.Title] = @ + 1]
                      /\ UNCHANGED resp
    /\ UNCHANGED <<store, m, now, domain, commitLog, base>>

\* dto := h.ConvertDomainToDto(domain)
postConvert2(p) ==
    /\ pc[p] = "post_convert"
    /\ domain' = [domain EXCEPT ![p] = ConvertDomainToDto(store, req[p].body.dto, Today(now))]
    /\ commitLog' = Append(commitLog, [dto |-> req[p].body.dto, day |-> now])
    /\ pc' = [pc EXCEPT ![p] = "post_append"]
    /\ UNCHANGED <<store, m, now, req, resp, issued, base>>

\* h.store = append(h.store, dto), its read of h.store ...
postAppendRead2(p) ==
    /\ pc[p] = "post_append"
    /\ base' = [base EXCEPT ![p] = store]
    /\ pc' = [pc EXCEPT ![p] = "post_store"]
    /\ UNCHANGED <<store, m, now, req, resp, domain, commitLog, issued>>

\* ... and its write of h.store, which nothing keeps next to the read.
postAppendWrite2(p) ==
    /\ pc[p] = "post_store"
    /\ store' = Append(base[p], domain[p])
    /\ base' = [base EXCEPT ![p] = <<>>]
    /\ resp' = [resp EXCEPT ![p] = Unwritten]
    /\ pc' = [pc EXCEPT ![p] = "ret"]
    /\ UNCHANGED <<m, now, req, domain, commitLog, issued>>

\* The handler returns; there is no lock to release.
Return2(p) ==
    /\ pc[p] = "ret"
    /\ pc' = [pc EXCEPT ![p] = "idle"]
    /\ req' = [req EXCEPT ![p] = NoReq]
    /\ resp' = [resp EXCEPT ![p] = NoResp]
    /\ domain' = [domain EXCEPT ![p] = NoDomain]
    /\ UNCHANGED <<store, m, now, commitLog, issued, base>>

NextNoMutex ==
    \/ Tick
    \/ \E p \in Procs :
         \/ articles2(p)
         \/ tags2(p)
         \/ getTags2(p)
         \/ get2(p)
         \/ process_id_request2(p)
         \/ post2(p)
         \/ postConvert2(p)
         \/ postAppendRead2(p)
         \/ postAppendWrite2(p)
         \/ Return2(p)

SpecNoMutex == InitNoMutex /\ [][NextNoMutex]_vars

\* ================================================================ claims
\* s without its separators.
Strip(s) == SelectSeq(s, LAMBDA c : c # "-")

Range(f) == { f[x] : x \in DOMAIN f }

\* The positions of the records of the store dated d and tagged t.
Matching(t, d) ==
    { i \in 1..Len(store) : Strip(store[i].Date) = d /\ t \in DOMAIN store[i].Tags }

\* The goroutines that have answered a tag query and still hold the lock.
TagAnswers == { p \in Procs : pc[p] = "ret" /\ resp[p].kind = "tags" }

TagQ(p) == req[p].ss[3]
DateQ(p) == req[p].ss[4]

\* The goroutines inside post's commit: draft decoded, record not yet appended.
Committing == { p \in Procs : pc[p] \in {"post_convert", "post_append"} }

\* C1: every record's Id is its position in the store, and the drafts
\* converted in the order D1..Dn are the records at positions 1..n, so they
\* carry consecutive ids in that order, starting from the length the store had.
C1_IdsInCommitOrder ==
    /\ \A i \in 1..Len(store) : store[i].Id = i - 1
    /\ Len(commitLog) >= Len(store) - 1
    /\ \A i \in 2..Len(store) : store[i].Title = commitLog[i - 1].dto.Title
    /\ \A p \in Procs : pc[p] = "post_append" => domain[p].Id = Len(store)

C1_Witness ==
    /\ Len(store) >= 3
    /\ store[2].Id = 1 /\ store[3].Id = 2
    /\ store[2].Title # store[3].Title

\* C2: the K well-formed posts decoded so far, whatever their interleaving,
\* account for exactly K records: each is either still inside its commit or
\* is one record of the store, no id is duplicated or skipped, and per draft
\* the number of records equals the number of posts of that draft.
C2_ExactlyK ==
    /\ \A t \in Titles :
         Cardinality({ i \in 2..Len(store) : store[i].Title = t })
           + Cardinality({ p \in Committing : req[p].body.dto.Title = t }) = issued[t]
    /\ { store[i].Id : i \in 1..Len(store) } = 0..(Len(store) - 1)
    /\ \A i \in 2..Len(store) : store[i].Title \in Titles

\* Two callers' posts overlap: one has appended and not yet unlocked, the
\* other waits for the lock, after an earlier post was committed.
C2_Witness ==
    \E p, q \in Procs :
        /\ p # q
        /\ pc[p] = "ret" /\ req[p].method = "POST" /\ resp[p] = Unwritten
        /\ pc[q] = "post"
        /\ Len(store) >= 2

C4_RelatedTags ==
    \A p \in TagAnswers :
        LET b == resp[p].body
            hits == Matching(TagQ(p), DateQ(p))
        IN  /\ Range(b.Related_Tags) = UNION { DOMAIN store[i].Tags : i \in hits }
            /\ Cardinality(Range(b.Related_Tags)) = Len(b.Related_Tags)
            /\ hits # {} => TagQ(p) \in Range(b.Related_Tags)

\* A query with two matching records, beside a record of the same day that
\* does not match and whose tag HealthCap is not reported.
C4_Witness ==
    \E p \in TagAnswers :
        /\ Cardinality(Matching(TagQ(p), DateQ(p))) = 2
        /\ \E i \in 1..Len(store) :
             /\ i \notin Matching(TagQ(p), DateQ(p))
             /\ Strip(store[i].Date) = DateQ(p)
             /\ HealthCap \in DOMAIN store[i].Tags
        /\ HealthCap \notin Range(resp[p].body.Related_Tags)
        /\ Len(resp[p].body.Related_Tags) = 3

\* C5: a tag query that no record matches, be the tag or the date never
\* ingested, is answered 200 with count 0, no ids and no related tags, and
\* no tag query changes the store.
C5_NoMatchIsEmptySuccess ==
    [][\A p \in Procs :
          (pc[p] = "getTags" /\ pc'[p] = "ret") =>
              /\ store' = store
              /\ (Len(req'[p].ss) = 4 /\ Matching(req'[p].ss[3], req'[p].ss[4]) = {}) =>
                     resp'[p] = [status |-> StatusOK, kind |-> "tags",
                                 body |-> [Tag |-> req'[p].ss[3], Count |-> 0,
                                           Articles |-> <<>>, Related_Tags |-> <<>>]]]_vars

\* A query for a tag never ingested, on a day that has records.
C5_Witness ==
    \E p \in TagAnswers :
        /\ TagQ(p) = nonexistent
        /\ \E i \in 1..Len(store) : Strip(store[i].Date) = DateQ(p)
        /\ resp[p].status = StatusOK
        /\ resp[p].body.Count = 0

\* The goroutines that have answered a request for one article.
IdAnswers ==
    { p \in Procs : pc[p] = "ret" /\ req[p].method = "GET"
                    /\ Len(req[p].ss) = 3 /\ req[p].ss[2] = articlesSeg }

\* C6: the record returned for the id k of the k-th committed draft has the
\* draft's title and body, the draft's tags as its tag set, and the date of
\* the day it was converted, however many posts followed.
C6_RoundTrip ==
    \A p \in IdAnswers :
        \A k \in 1..(Len(store) - 1) :
            req[p].ss[3] = Pad(k, 1) =>
                /\ resp[p].status = StatusOK
                /\ resp[p].kind = "record"
                /\ resp[p].body.Title = commitLog[k].dto.Title
                /\ resp[p].body.Body = commitLog[k].dto.Body
                /\ DOMAIN resp[p].body.Tags = Range(commitLog[k].dto.Tags)
                /\ resp[p].body.Date = Format(Today(commitLog[k].day))

\* The first committed draft, read back after a later post on a later day.
C6_Witness ==
    \E p \in IdAnswers :
        /\ req[p].ss[3] = Pad(1, 1)
        /\ Len(store) >= 3
        /\ resp[p].kind = "record"
        /\ resp[p].body.Title = "Run"
        /\ resp[p].body.Date # store[3].Date

\* C7: a request for one article returns the record whose Id is the
\* requested id exactly when that id is in 0..length-1, answers Bad Request
\* without a record otherwise, and never changes the store.
C7_GetById ==
    [][\A p \in Procs :
          (pc[p] = "process_id_request" /\ pc'[p] = "ret") =>
              /\ store' = store
              /\ IF \E i \in 0..(Len(store) - 1) : req'[p].ss[3] = Pad(i, 1)
                 THEN /\ resp'[p].status = StatusOK
                      /\ resp'[p].kind = "record"
                      /\ req'[p].ss[3] = Pad(resp'[p].body.Id, 1)
                      /\ resp'[p].body = store[resp'[p].body.Id + 1]
                 ELSE /\ resp'[p].status = StatusBadRequest
                      /\ resp'[p].kind = "text"]_vars

\* The id equal to the length of a store of two or more records is refused.
C7_Witness ==
    \E p \in IdAnswers :
        /\ Len(store) >= 2
        /\ req[p].ss[3] = Pad(Len(store), 1)
        /\ resp[p].status = StatusBadRequest

\* Letters in byte order, upper case before lower case.
Upper == <<"A", "B", "C", "D", "E", "F", "G", "H", "I", "J", "K", "L", "M",
           "N", "O", "P", "Q", "R", "S", "T", "U", "V", "W", "X", "Y", "Z">>
Lower == <<"a", "b", "c", "d", "e", "f", "g", "h", "i", "j", "k", "l", "m",
           "n", "o", "p", "q", "r", "s", "t", "u", "v", "w", "x", "y", "z">>

\* The case-folded form of a string.
ToLower(s) ==
    [j \in 1..Len(s) |->
        IF \E i \in 1..Len(Upper) : Upper[i] = s[j]
        THEN Lower[CHOOSE i \in 1..Len(Upper) : Upper[i] = s[j]]
        ELSE s[j]]

\* C8: every stored tag is case-folded, and a tag query returns every record
\* of the queried day that carries the queried tag in any letter case.
C8_TagsCaseFolded ==
    /\ \A i \in 1..Len(store) : \A t \in DOMAIN store[i].Tags : ToLower(t) = t
    /\ \A p \in TagAnswers :
         \A i \in 1..Len(store) :
             ( /\ Strip(store[i].Date) = DateQ(p)
               /\ \E t \in DOMAIN store[i].Tags : ToLower(t) = ToLower(TagQ(p)) )
             => store[i].Id \in Range(resp[p].body.Articles)

CharRank(c) ==
    LET abc == Upper \o Lower IN CHOOSE i \in 1..Len(abc) : abc[i] = c

\* a sorts strictly before b.
RECURSIVE StringLess(_, _)
StringLess(a, b) ==
    IF b = <<>> THEN FALSE
    ELSE IF a = <<>> THEN TRUE
    ELSE IF Head(a) # Head(b) THEN CharRank(Head(a)) < CharRank(Head(b))
    ELSE StringLess(Tail(a), Tail(b))

\* C10: the related tags of a tag query come in sorted order, so that the
\* same query against the same store always returns the same sequence.
C10_RelatedTagsSorted ==
    \A p \in TagAnswers :
        LET r == resp[p].body.Related_Tags
        IN  \A i \in 1..(Len(r) - 1) : StringLess(r[i], r[i + 1])

\* The goroutines that have read the store under the lock and still hold it.
Readers == { p \in Procs : pc[p] = "ret" /\ m = p /\ req[p].method = "GET" }

\* The record the k-th converted draft makes, as the history tells it.
Committed(k) ==
    [Id |-> k,
     Title |-> commitLog[k].dto.Title,
     Date |-> Format(Today(commitLog[k].day)),
     Body |-> commitLog[k].dto.Body,
     Tags |-> Range(commitLog[k].dto.Tags)]

\* C11: a reader sees the store of a whole number of commits: while it holds
\* the lock no post stands between its id assignment and its append, every
\* record is complete (id, title, date, body, all tags) with Id its position,
\* and what the reader returns is taken from those records.
C11_NoPartialCommit ==
    \A p \in Readers :
        /\ Committing = {}
        /\ Len(commitLog) = Len(store) - 1
        /\ \A i \in 1..Len(store) : store[i].Id = i - 1
        /\ \A i \in 2..Len(store) :
             [store[i] EXCEPT !.Tags = DOMAIN store[i].Tags] = Committed(i - 1)
        /\ resp[p].kind = "record" => resp[p].body = store[resp[p].body.Id + 1]
        /\ resp[p].kind = "list" =>
             /\ Len(resp[p].body) = Len(store)
             /\ \A i \in 1..Len(store) : resp[p].body[i].Id = i - 1

\* A reader holds the lock between two commits while a post waits for it.
C11_Witness ==
    \E p \in Readers, q \in Procs :
        /\ pc[q] = "post"
        /\ Len(store) = 2
        /\ resp[p].kind \in {"tags", "record", "list"}

\* a is an initial part of b.
IsPrefix(a, b) == Len(a) <= Len(b) /\ SubSeq(b, 1, Len(a)) = a

\* C12: every step leaves the store it found as an initial part of the store
\* it leaves, records unchanged; only post's append lengthens it, by one
\* record; getTags, process_id_request and get leave it as it is.
C12_AppendOnly ==
    [][/\ IsPrefix(store, store')
       /\ Len(store') <= Len(store) + 1
       /\ store' # store => \E p \in Procs : pc[p] = "post_append" /\ pc'[p] = "ret"
       /\ \A p \in Procs :
            (pc[p] \in {"getTags", "get_list", "process_id_request"} /\ pc'[p] # pc[p])
                => store' = store]_vars

\* The first committed record is as it was committed, after a later post and
\* a listing of the store.
C12_Witness ==
    /\ Len(store) >= 3
    /\ [store[2] EXCEPT !.Tags = DOMAIN store[2].Tags] = Committed(1)
    /\ \E p \in Procs : pc[p] = "ret" /\ resp[p].kind = "list"

\* C13: a listing holds one projection per record, in store order, with the
\* record's id, title, date and body, and as tags exactly the record's tags:
\* each once and nothing else, so as many entries as the record has tags.
C13_ListProjection ==
    \A p \in Procs :
        (pc[p] = "ret" /\ resp[p].kind = "list") =>
            /\ Len(resp[p].body) = Len(store)
            /\ \A i \in 1..Len(store) :
                 LET dto == resp[p].body[i]
                 IN  /\ dto.Id = store[i].Id
                     /\ dto.Title = store[i].Title
                     /\ dto.Date = store[i].Date
                     /\ dto.Body = store[i].Body
                     /\ Range(dto.Tags) = DOMAIN store[i].Tags
                     /\ Len(dto.Tags) = Cardinality(DOMAIN store[i].Tags)

\* The sum of f over the set S of arguments.
RECURSIVE SumOver(_, _)
SumOver(f, S) ==
    IF S = {} THEN 0 ELSE LET x == CHOOSE x \in S : TRUE IN f[x] + SumOver(f, S \ {x})

\* C15: a post whose body cannot be read or does not decode answers with an
\* error and leaves the store and the histories as they were; the id a post
\* is given is the number of well-formed posts decoded up to it, so a failed
\* post consumes none and the next post gets the id it would have got.
C15_FailedPostConsumesNothing ==
    [][\A p \in Procs :
          /\ (pc[p] = "post" /\ pc'[p] # "post"
                /\ (req'[p].body.readErr \/ ~req'[p].body.valid)) =>
                 /\ pc'[p] = "ret"
                 /\ resp'[p].kind = "text"
                 /\ resp'[p].status \in {StatusBadRequest, StatusInternalServerError}
                 /\ store' = store
                 /\ commitLog' = commitLog
                 /\ issued' = issued
          /\ (pc[p] = "post_convert" /\ pc'[p] = "post_append") =>
                 /\ domain'[p].Id = Len(store)
                 /\ domain'[p].Id = SumOver(issued, Titles)]_vars

\* A post has failed on a store of two records, the lock still held, while
\* the next post waits for it.
C15_Witness ==
    \E p, q \in Procs :
        /\ pc[p] = "ret" /\ m = p /\ req[p].method = "POST"
        /\ resp[p].status = StatusBadRequest
        /\ pc[q] = "post"
        /\ Len(store) = 2

\* The labels at which a goroutine is about to call h.m.Lock().
AtLock == {"getTags", "get_list", "process_id_request", "post"}

\* C17: no goroutine calls Lock while it holds the mutex; the mutex is held
\* only by a handler between its Lock and its return, so every return, error
\* returns included, has released it; while a request is being handled some
\* handler can step (no deadlock); and under fair scheduling every request is
\* answered and its handler returns.
C17_LockDiscipline ==
    /\ []((\E p \in Procs : pc[p] # "idle") =>
             \E q \in Procs : ENABLED (TakeLock(q) \/ Proceed(q)))
    /\ [](\A p \in Procs : pc[p] \in AtLock \cup {"idle"} => m # p)
    /\ [](m # 0 => pc[m] \in {"post_convert", "post_append", "ret"})
    /\ \A p \in Procs : (pc[p] # "idle") ~> (pc[p] = "idle")

\* A handler on an error return still holds the mutex while another
\* goroutine is blocked in Lock.
C17_Witness ==
    \E p, q \in Procs :
        /\ pc[p] = "ret" /\ m = p
        /\ resp[p].status = StatusBadRequest
        /\ pc[q] \in AtLock

\* C16: a tag query whose path does not split into exactly four segments is
\* answered with Bad Request, by a handler that does not fault, and the store
\* is left as it was.
C16_MalformedTagPathIsBadRequest ==
    [][\A p \in Procs :
          (pc[p] = "getTags" /\ pc'[p] # "getTags" /\ Len(req'[p].ss) # 4) =>
              /\ resp'[p] = Text(StatusBadRequest, "Bad request tag url.")
              /\ store' = store]_vars

\* The positions of the records dated d whose tag list holds t.
MatchingListed(t, d) ==
    { i \in 1..Len(store) : Strip(store[i].Date) = d /\ t \in Range(store[i].Tags) }

\* C18: with tags kept as a list, the answer to a well-formed tag query has
\* Count equal to the number of records matching (tag, date), and Articles
\* holds the id of each matching record once and nothing else.
C18_CountsDistinctRecords ==
    [][\A p \in Procs :
          (pc[p] = "getTags" /\ pc'[p] # "getTags" /\ resp'[p].kind = "tags") =>
              LET hits == MatchingListed(req'[p].ss[3], req'[p].ss[4])
                  body == resp'[p].body
              IN  /\ body.Count = Cardinality(hits)
                  /\ Len(body.Articles) = Cardinality(hits)
                  /\ Range(body.Articles) = { store[i].Id : i \in hits }]_vars

\* C19: without the mutex, once every post has returned the store holds the
\* seed record and one record per converted draft, each record's Id is its
\* position, and no two records share an Id.
C19_ConcurrentPostsKeepIds ==
    /\ \A i, j \in 1..Len(store) : store[i].Id = store[j].Id => i = j
    /\ \A i \in 1..Len(store) : store[i].Id = i - 1
    /\ PostsInFlight = {} => Len(store) = 1 + Len(commitLog)

====
